---- MODULE Spec2Model ----
(***************************************************************************)
(* Model of ChromiumRunner (src/main.py): the argument model, the value    *)
(* interpolator, the configuration with its write-through persistence and  *)
(* the event loop that routes widget events to the configuration.          *)
(*                                                                         *)
(* Python strings are sequences of one-character strings, so that          *)
(* splitting, stripping, suffix matching and the interpolation regex are   *)
(* computed character by character as the code computes them.              *)
(***************************************************************************)
EXTENDS Integers, Sequences, FiniteSets, TLC

VARIABLES
    pc,             \* position of the program: start, save_open, save_write,
                    \* init_ui, idle, display, closed, raised, crashed
    phase,          \* "init" while App.__init__ runs, "loop" in run_event_loop
    error,          \* the exception that ended the program ("" if none)
    disk,           \* content of the configuration file
    browser_path,   \* Config.browser_path, as str(Path)
    args,           \* Config.args: sequence of Arg objects
    controls,       \* the window's keyed elements with their widget state
    command_output, \* text of the "Result Command" element
    event,          \* the control whose event the loop is handling
    now,            \* the system clock, in seconds
    fn_op,          \* pure-function harness: the function applied
    fn_in,          \* its input
    fn_out          \* its output

vars == <<pc, phase, error, disk, browser_path, args, controls, command_output,
          event, now, fn_op, fn_in, fn_out>>

appvars == <<pc, phase, error, disk, browser_path, args, controls,
             command_output, event>>

fnvars == <<fn_op, fn_in, fn_out>>

(***************************************************************************)
(* Bounds of the model.                                                    *)
(***************************************************************************)
MaxClock == 1

MaxSegments == 2

MaxBackslashes == 2

MaxItems == 2

MaxRawLen == 3

(***************************************************************************)
(* The shapes of the data.                                                 *)
(***************************************************************************)
\* the fields of the dataclass Arg, and those without a default
ArgFields == {"name", "description", "type", "value", "enabled"}

ArgRequired == {"name", "description", "type"}

\* the dict of one argument in a document
ArgDict(name, description, type, value, enabled) ==
    [name |-> name, description |-> description, type |-> type, value |-> value,
     enabled |-> enabled]

(***************************************************************************)
(* Python values.  A JSON document is what Json.loads returns: None, str,  *)
(* int, and list of dict; json.dumps is its inverse on these.              *)
(***************************************************************************)
PyNone == [t |-> "None"]

PyStr(s) == [t |-> "str", s |-> s]

PyInt(i) == [t |-> "int", n |-> i]

PyList(xs) == [t |-> "list", items |-> xs]

\* a dict {"enabled": e, "value": v}
ItemDict(e, v) == [d |-> [value |-> v, enabled |-> e], cls |-> "dict"]

\* class ArgListItem
ArgListItem(e, v) == [value |-> v, enabled |-> e, cls |-> "ArgListItem"]

\* dataclasses.asdict(item)
asdict(it) == ItemDict(it.enabled, it.value)

\* class ArgType: member name -> value
ArgTypeValue ==
    [STRING |-> "string", FLAG |-> "flag", NUMBER |-> "number", LIST |-> "list"]

ArgTypeMembers == DOMAIN ArgTypeValue

Raise(e) == [ok |-> FALSE, err |-> e]

Return(v) == [ret |-> v, ok |-> TRUE]

\* a keyed element of the window, with the state of its widget
Control(kind, key, a, j, checked) ==
    [kind |-> kind, key |-> key, checked |-> checked, arg |-> a, item |-> j]

NoEvent ==
    [kind |-> "none", key |-> <<>>, checked |-> FALSE,
     arg |-> 0, item |-> 0, text |-> <<>>]

\* the content of the configuration file: a document, or nothing
Truncated == [kind |-> "empty"]

Stored(doc) == [kind |-> "doc", doc |-> doc]

(***************************************************************************)
(* String helpers (Python str methods).                                    *)
(***************************************************************************)
startswith(s, p) == Len(s) >= Len(p) /\ SubSeq(s, 1, Len(p)) = p

endswith(s, p) == Len(s) >= Len(p) /\ SubSeq(s, Len(s) - Len(p) + 1, Len(s)) = p

\* s[n:]
DropFirst(s, n) == SubSeq(s, n + 1, Len(s))

RECURSIVE replace_from(_, _, _)
replace_from(s, old, i) ==
    IF i > Len(s) THEN <<>>
    ELSE IF Len(old) > 0 /\ i + Len(old) - 1 <= Len(s)
            /\ SubSeq(s, i, i + Len(old) - 1) = old
         THEN replace_from(s, old, i + Len(old))
         ELSE <<s[i]>> \o replace_from(s, old, i + 1)

\* s.replace(old, "", -1): every non-overlapping occurrence removed, left to right
replace_all(s, old) == replace_from(s, old, 1)

IsSpace(c) == c \in {" ", "\t", "\n", "\r"}

RECURSIVE lstrip(_)
lstrip(s) == IF s # <<>> /\ IsSpace(Head(s)) THEN lstrip(Tail(s)) ELSE s

RECURSIVE rstrip(_)
rstrip(s) ==
    IF s # <<>> /\ IsSpace(s[Len(s)]) THEN rstrip(SubSeq(s, 1, Len(s) - 1)) ELSE s

strip(s) == rstrip(lstrip(s))

RECURSIVE split_from(_, _, _)
split_from(s, sep, cur) ==
    IF s = <<>> THEN <<cur>>
    ELSE IF Head(s) = sep THEN <<cur>> \o split_from(Tail(s), sep, <<>>)
         ELSE split_from(Tail(s), sep, Append(cur, Head(s)))

\* s.split(sep) for a one-character separator: never empty, "" gives [""]
split(s, sep) == split_from(s, sep, <<>>)

RECURSIVE join(_, _)
join(sep, parts) ==
    IF parts = <<>> THEN <<>>
    ELSE IF Len(parts) = 1 THEN parts[1]
         ELSE parts[1] \o sep \o join(sep, Tail(parts))

DigitChars == <<"0", "1", "2", "3", "4", "5", "6", "7", "8", "9">>

IsDigit(c) == \E d \in 1..10 : DigitChars[d] = c

DigitValue(c) == (CHOOSE d \in 1..10 : DigitChars[d] = c) - 1

RECURSIVE NatToStr(_)
NatToStr(n) ==
    IF n < 10 THEN <<DigitChars[n + 1]>>
    ELSE NatToStr(n \div 10) \o <<DigitChars[(n % 10) + 1]>>

\* str(n) of an int
int_to_str(n) == IF n < 0 THEN <<"-">> \o NatToStr(-n) ELSE NatToStr(n)

RECURSIVE DigitsToNat(_, _)
DigitsToNat(s, acc) ==
    IF s = <<>> THEN acc ELSE DigitsToNat(Tail(s), acc * 10 + DigitValue(Head(s)))

\* int(s): surrounding whitespace stripped, an optional sign, then digits;
\* anything else is a ValueError
int_parse(s) ==
    LET t == strip(s)
        signed == t # <<>> /\ Head(t) \in {"+", "-"}
        digits == IF signed THEN Tail(t) ELSE t
    IN  IF digits # <<>> /\ \A k \in 1..Len(digits) : IsDigit(digits[k])
        THEN [ok |-> TRUE,
              num |-> IF signed /\ Head(t) = "-" THEN -DigitsToNat(digits, 0)
                    ELSE DigitsToNat(digits, 0)]
        ELSE [ok |-> FALSE, num |-> 0]

(***************************************************************************)
(* ValueInterpolator                                                       *)
(***************************************************************************)
ENV_PREFIX == <<"e", "n", "v", ":">>

TOOL_PREFIX == <<"t", "o", "o", "l", ":">>

s_FOO == <<"F", "O", "O">>

s_REF == <<"R", "E", "F">>

s_NOPE == <<"N", "O", "P", "E">>

s_bar == <<"b", "a", "r">>

s_timestamp == <<"t", "i", "m", "e", "s", "t", "a", "m", "p">>

token(inner) == <<"$", "{">> \o inner \o <<"}">>

\* os.environ of the process: FOO=bar, and REF holds text that is itself a token
environ == (s_FOO :> s_bar) @@ (s_REF :> token(ENV_PREFIX \o s_FOO))

\* datetime.now(timezone.utc).strftime("%Y-%m-%d_%H-%M-%S")
timestamp(t) ==
    <<"2", "0", "2", "6", "-", "0", "1", "-", "1", "1", "_",
      "1", "2", "-", "3", "4", "-", "5">> \o <<DigitChars[(t % 10) + 1]>>

repl(escaped, inner, t) ==
    IF escaped THEN token(inner)
    ELSE IF startswith(inner, ENV_PREFIX)
            /\ DropFirst(inner, Len(ENV_PREFIX)) \in DOMAIN environ
         THEN environ[DropFirst(inner, Len(ENV_PREFIX))]
         ELSE IF startswith(inner, TOOL_PREFIX)
                 /\ DropFirst(inner, Len(TOOL_PREFIX)) = s_timestamp
              THEN timestamp(t)
              ELSE token(inner)

RECURSIVE FindClose(_, _)
\* the index of the first "}" at or after i, 0 if there is none
FindClose(s, i) ==
    IF i > Len(s) THEN 0 ELSE IF s[i] = "}" THEN i ELSE FindClose(s, i + 1)

\* \$\{([^}]+)\} anchored at i: the index of its closing brace, 0 if no match
TokenEnd(s, i) ==
    IF i + 1 <= Len(s) /\ s[i] = "$" /\ s[i + 1] = "{"
    THEN LET c == FindClose(s, i + 2) IN IF c > i + 2 THEN c ELSE 0
    ELSE 0

RECURSIVE pattern_sub(_, _, _)
\* pattern.sub(repl, s) from index i: leftmost matches of (\\)?\$\{([^}]+)\},
\* each replaced once, scanning resumed after the match
pattern_sub(s, i, t) ==
    IF i > Len(s) THEN <<>>
    ELSE LET e1 == IF s[i] = "\\" THEN TokenEnd(s, i + 1) ELSE 0
             e0 == TokenEnd(s, i)
         IN  IF e1 > 0
             THEN repl(TRUE, SubSeq(s, i + 3, e1 - 1), t) \o pattern_sub(s, e1 + 1, t)
             ELSE IF e0 > 0
                  THEN repl(FALSE, SubSeq(s, i + 2, e0 - 1), t)
                       \o pattern_sub(s, e0 + 1, t)
                  ELSE <<s[i]>> \o pattern_sub(s, i + 1, t)

\* a variant of interpolate_string in which the output is scanned again
interpolate_string_rescan(s, t) == pattern_sub(pattern_sub(s, 1, t), 1, t)

\* ValueInterpolator.interpolate_string
interpolate_string(s, t) == pattern_sub(s, 1, t)

\* [ArgListItem(**item) for item in json["value"]]
items_from_json(v) ==
    IF v.t = "str" /\ v.s = <<>> THEN Return(<<>>)
    ELSE IF v.t # "list" THEN Raise("TypeError")
    ELSE IF \E k \in 1..Len(v.items) :
                \/ v.items[k].cls # "dict"
                \/ DOMAIN v.items[k].d # {"enabled", "value"}
         THEN Raise("TypeError")
         ELSE Return([k \in 1..Len(v.items) |->
                        ArgListItem(v.items[k].d.enabled, v.items[k].d.value)])

\* a variant of from_json in which every item comes back enabled
from_json_items_enabled(json) ==
    LET ty == CHOOSE m \in ArgTypeMembers : ArgTypeValue[m] = json.type
        its == items_from_json(json.value)
    IN  Return([name |-> json.name, description |-> json.description, type |-> ty,
                value |-> IF ty = "LIST"
                          THEN PyList([k \in 1..Len(its.ret) |->
                                         ArgListItem(TRUE, its.ret[k].value)])
                          ELSE json.value,
                enabled |-> json.enabled])

\* Arg.from_json
from_json(json) ==
    IF "type" \notin DOMAIN json THEN Raise("KeyError")
    ELSE IF ~ \E m \in ArgTypeMembers : ArgTypeValue[m] = json.type
    THEN Raise("ValueError")
    ELSE LET ty == CHOOSE m \in ArgTypeMembers : ArgTypeValue[m] = json.type
             its == IF ty = "LIST"
                    THEN IF "value" \in DOMAIN json THEN items_from_json(json.value)
                         ELSE Raise("KeyError")
                    ELSE Return(<<>>)
         IN  IF ~its.ok THEN its
             ELSE IF ~(DOMAIN json \subseteq ArgFields /\ ArgRequired \subseteq DOMAIN json)
             THEN Raise("TypeError")
             ELSE Return([name |-> json.name,
                          description |-> json.description,
                          type |-> ty,
                          value |-> IF ty = "LIST" THEN PyList(its.ret)
                                    ELSE IF "value" \in DOMAIN json THEN json.value
                                    ELSE PyNone,
                          enabled |-> IF "enabled" \in DOMAIN json THEN json.enabled
                                      ELSE TRUE])

\* Arg.to_json
to_json(arg) ==
    [name |-> arg.name,
     description |-> arg.description,
     type |-> ArgTypeValue[arg.type],
     value |-> IF arg.type = "LIST" /\ arg.value.t = "list"
               THEN PyList([k \in 1..Len(arg.value.items) |-> asdict(arg.value.items[k])])
               ELSE arg.value,
     enabled |-> arg.enabled]

\* Arg.flag_name
flag_name(arg) == <<"-", "-">> \o arg.name

\* f"{value}" of a str or an int
format_value(v) ==
    CASE v.t = "str" -> v.s
      [] v.t = "int" -> int_to_str(v.n)

\* Arg.__str__
arg_str(arg) ==
    CASE arg.type = "STRING" ->
            IF arg.value.t = "None" THEN Raise("AssertionError")
            ELSE Return(flag_name(arg) \o <<"=", "\"">> \o format_value(arg.value)
                        \o <<"\"">>)
      [] arg.type = "FLAG" ->
            IF arg.value.t # "None" THEN Raise("AssertionError")
            ELSE Return(flag_name(arg))
      [] arg.type = "NUMBER" ->
            IF arg.value.t = "None" THEN Raise("AssertionError")
            ELSE Return(flag_name(arg) \o <<"=">> \o format_value(arg.value))
      [] arg.type = "LIST" ->
            IF arg.value.t # "list" THEN Raise("AssertionError")
            ELSE LET en == SelectSeq(arg.value.items, LAMBDA it : it.enabled)
                     enabled_items == [k \in 1..Len(en) |-> en[k].value]
                 IN  Return(flag_name(arg) \o <<"=", "\"">>
                            \o join(<<",">>, enabled_items) \o <<"\"">>)

(***************************************************************************)
(* Config                                                                  *)
(***************************************************************************)
p_bin_x == <<"/", "b", "i", "n", "/", "x">>

p_tok == <<"/">> \o token(ENV_PREFIX \o s_FOO)

p_none == <<"/", "n", "o">>

p_cwd == <<".">>

\* the file system: the paths that exist, with what each is
FileSystem == (p_bin_x :> "executable") @@ (p_tok :> "executable") @@ (p_cwd :> "directory")

RECURSIVE PathStr(_)
\* str(Path(s)): the empty path is ".", trailing slashes are dropped
PathStr(s) ==
    IF s = <<>> THEN p_cwd
    ELSE IF Len(s) > 1 /\ s[Len(s)] = "/" THEN PathStr(SubSeq(s, 1, Len(s) - 1))
    ELSE s

\* Path.exists
exists(p) == p \in DOMAIN FileSystem

RECURSIVE args_from_json(_, _)
\* [Arg.from_json(arg_data) for arg_data in ...]: the first failure raises
args_from_json(docs, acc) ==
    IF docs = <<>> THEN Return(acc)
    ELSE LET r == from_json(Head(docs))
         IN  IF r.ok THEN args_from_json(Tail(docs), Append(acc, r.ret)) ELSE r

\* Config.__init__ on the file's content
config_init(file) ==
    IF file.kind # "doc" THEN Raise("JSONDecodeError")
    ELSE LET json == file.doc
             bp == PathStr(IF "browser_path" \in DOMAIN json THEN json.browser_path
                           ELSE <<>>)
         IN  IF ~exists(bp) THEN Raise("FileNotFoundError")
             ELSE LET r == args_from_json(IF "args" \in DOMAIN json THEN json.args
                                          ELSE <<>>, <<>>)
                  IN  IF r.ok THEN Return([args |-> r.ret, browser_path |-> bp]) ELSE r

\* the document Config.save writes
save_document(bp, as) ==
    [args |-> [k \in 1..Len(as) |-> to_json(as[k])], browser_path |-> bp]

RECURSIVE command_loop(_, _, _, _)
command_loop(as, i, acc, t) ==
    IF i > Len(as) THEN Return(acc)
    ELSE IF ~as[i].enabled THEN command_loop(as, i + 1, acc, t)
    ELSE LET r == arg_str(as[i])
         IN  IF ~r.ok THEN r
             ELSE command_loop(as, i + 1, Append(acc, interpolate_string(r.ret, t)), t)

\* a variant of run_browser_command in which disabled arguments are not skipped
run_browser_command_all(bp, as, t) ==
    command_loop([k \in 1..Len(as) |-> [as[k] EXCEPT !.enabled = TRUE]], 1, <<bp>>, t)

\* Config.run_browser_command
run_browser_command(bp, as, t) == command_loop(as, 1, <<bp>>, t)

\* Config.decorated_run_browser_command
decorated_run_browser_command(bp, as, t) ==
    LET r == run_browser_command(bp, as, t)
    IN  IF r.ok THEN Return(join(<<"\n">>, r.ret)) ELSE r

\* Config.find_arg: the index of the first Arg of that name, 0 for None
find_arg(as, arg_name) ==
    IF \E k \in 1..Len(as) : as[k].name = arg_name
    THEN CHOOSE k \in 1..Len(as) :
            as[k].name = arg_name /\ \A j \in 1..(k - 1) : as[j].name # arg_name
    ELSE 0

\* the (arg, item) index pairs whose full name is arg_list_name
ListItemMatches(as, arg_list_name) ==
    UNION {{<<a, j>> : j \in {j \in 1..Len(as[a].value.items) :
                as[a].name \o <<"_">> \o as[a].value.items[j].value = arg_list_name}} :
           a \in {a \in 1..Len(as) : as[a].type = "LIST"}}

\* Config.find_arg_list_item: the first match in scan order, <<0, 0>> for None
find_arg_list_item(as, arg_list_name) ==
    LET ms == ListItemMatches(as, arg_list_name)
    IN  IF ms = {} THEN <<0, 0>>
        ELSE CHOOSE m \in ms :
                \A o \in ms : m[1] < o[1] \/ (m[1] = o[1] /\ m[2] <= o[2])

\* a variant of set_value in which list items are not stripped
set_value_nostrip(as, arg_name, value) ==
    LET i == find_arg(as, arg_name)
        items == split(value, ",")
    IN  IF i = 0 THEN Raise("AssertionError")
        ELSE Return([as EXCEPT ![i].value =
                        PyList([k \in 1..Len(items) |-> ArgListItem(TRUE, items[k])])])

\* Config.set_value
set_value(as, arg_name, value) ==
    LET i == find_arg(as, arg_name)
    IN  IF i = 0 THEN Raise("AssertionError")
        ELSE CASE as[i].type = "STRING" ->
                    Return([as EXCEPT ![i].value = PyStr(value)])
               [] as[i].type = "NUMBER" ->
                    LET r == int_parse(value)
                    IN  Return([as EXCEPT ![i].value = PyInt(IF r.ok THEN r.num ELSE 0)])
               [] as[i].type = "LIST" ->
                    LET items == split(value, ",")
                    IN  Return([as EXCEPT ![i].value =
                                  PyList([k \in 1..Len(items) |->
                                            ArgListItem(TRUE, strip(items[k]))])])
               [] OTHER -> Return(as)

(***************************************************************************)
(* App: the window's controls and the event loop                           *)
(***************************************************************************)
list_checkbox_suffix ==
    <<"_", "l", "i", "s", "t", "_", "c", "h", "e", "c", "k", "b", "o", "x">>

checkbox_suffix == <<"_", "c", "h", "e", "c", "k", "b", "o", "x">>

input_suffix == <<"_", "i", "n", "p", "u", "t">>

run_key == <<"r", "u", "n", "_", "b", "r", "o", "w", "s", "e", "r", "_",
             "b", "u", "t", "t", "o", "n">>

\* App.create_arg_checkbox
create_arg_checkbox(as, a) ==
    Control("arg_checkbox", as[a].name \o checkbox_suffix, a, 0, as[a].enabled)

\* App._create_layout_for_arg: the keyed elements of one argument's frame
create_layout_for_arg(as, a) ==
    IF as[a].type = "LIST"
    THEN IF as[a].value.t # "list" THEN Raise("AssertionError")
         ELSE Return(<<create_arg_checkbox(as, a)>> \o
                [j \in 1..Len(as[a].value.items) |->
                    Control("item_checkbox",
                            as[a].name \o <<"_">> \o as[a].value.items[j].value
                                \o list_checkbox_suffix,
                            a, j, as[a].value.items[j].enabled)])
    ELSE IF as[a].type \in {"STRING", "NUMBER"}
    THEN IF as[a].value.t = "None" THEN Raise("AssertionError")
         ELSE Return(<<create_arg_checkbox(as, a),
                       Control("input", as[a].name \o input_suffix, a, 0, FALSE)>>)
    ELSE Return(<<create_arg_checkbox(as, a)>>)

RECURSIVE layout_loop(_, _, _)
layout_loop(as, a, acc) ==
    IF a > Len(as) THEN Return(Append(acc, Control("button", run_key, 0, 0, FALSE)))
    ELSE LET r == create_layout_for_arg(as, a)
         IN  IF r.ok THEN layout_loop(as, a + 1, acc \o r.ret) ELSE r

\* App._create_main_window: every keyed element, in layout order
create_main_window(as) == layout_loop(as, 1, <<>>)

\* run_event_loop, the _list_checkbox branch
on_list_checkbox(as, key, value) ==
    LET m == find_arg_list_item(as, replace_all(key, list_checkbox_suffix))
    IN  IF m[1] # 0
        THEN [ok |-> TRUE,
              new_args |-> [as EXCEPT ![m[1]].value.items[m[2]].enabled = value],
              save |-> TRUE]
        ELSE [ok |-> TRUE, new_args |-> as, save |-> FALSE]

\* run_event_loop, the _checkbox branch
on_checkbox(as, key, value) ==
    LET a == find_arg(as, replace_all(key, checkbox_suffix))
    IN  IF a # 0
        THEN [ok |-> TRUE, new_args |-> [as EXCEPT ![a].enabled = value], save |-> TRUE]
        ELSE [ok |-> TRUE, new_args |-> as, save |-> FALSE]

\* run_event_loop, the _input branch
on_input(as, key, value) ==
    LET r == set_value(as, replace_all(key, input_suffix), value)
    IN  IF r.ok THEN [ok |-> TRUE, new_args |-> r.ret, save |-> TRUE]
        ELSE [ok |-> FALSE, new_args |-> as, save |-> FALSE]

\* a variant of on_event in which the input branch does not save
on_event_input_unsaved(as, key, checked, text) ==
    IF endswith(key, list_checkbox_suffix) THEN on_list_checkbox(as, key, checked)
    ELSE IF endswith(key, checkbox_suffix) THEN on_checkbox(as, key, checked)
    ELSE IF endswith(key, input_suffix)
    THEN [on_input(as, key, text) EXCEPT !.save = FALSE]
    ELSE [ok |-> TRUE, new_args |-> as, save |-> FALSE]

\* run_event_loop: the elif chain on the event key, for an event that is no
\* registered handler; values[event] is `checked` for a checkbox, `text` for an input
on_event(as, key, checked, text) ==
    IF endswith(key, list_checkbox_suffix) THEN on_list_checkbox(as, key, checked)
    ELSE IF endswith(key, checkbox_suffix) THEN on_checkbox(as, key, checked)
    ELSE IF endswith(key, input_suffix) THEN on_input(as, key, text)
    ELSE [ok |-> TRUE, new_args |-> as, save |-> FALSE]

(***************************************************************************)
(* The configuration documents the program may find on disk.  No document  *)
(* here gives two elements the same key: what the GUI library does with a  *)
(* duplicate key is outside the program.                                   *)
(***************************************************************************)
n_a == <<"a">>

n_b == <<"b">>

n_f == <<"f">>

n_l == <<"l">>

n_s == <<"s">>

s_d == <<"d">>

s_v == <<"v">>

s_x == <<"x">>

s_y == <<"y">>

Documents ==
    << \* the spec's example: a=1 (number), b (flag, disabled)
       [args |-> <<ArgDict(n_a, s_d, "number", PyInt(1), TRUE),
                   ArgDict(n_b, <<>>, "flag", PyNone, FALSE)>>, browser_path |-> p_bin_x],
       \* a string holding a token, and a list with an enabled and a disabled item
       [args |-> <<ArgDict(n_s, s_d, "string", PyStr(token(ENV_PREFIX \o s_FOO)), TRUE),
                   ArgDict(n_l, s_d, "list",
                           PyList(<<ItemDict(TRUE, s_x), ItemDict(FALSE, s_y)>>), TRUE)>>,
        browser_path |-> p_bin_x],
       \* no browser_path
       [args |-> <<ArgDict(n_a, s_d, "number", PyInt(1), TRUE)>>],
       \* a browser path that does not exist
       [args |-> <<ArgDict(n_a, s_d, "number", PyInt(1), TRUE)>>, browser_path |-> p_none],
       \* a string argument whose value is null
       [args |-> <<ArgDict(n_s, s_d, "string", PyNone, FALSE)>>, browser_path |-> p_bin_x],
       \* a flag that carries a value
       [args |-> <<ArgDict(n_f, s_d, "flag", PyStr(s_v), FALSE)>>, browser_path |-> p_bin_x],
       \* names that contain the key suffixes
       [args |-> <<ArgDict(n_a, s_d, "string", PyStr(s_v), TRUE),
                   ArgDict(n_a \o checkbox_suffix, s_d, "flag", PyNone, TRUE),
                   ArgDict(n_b \o input_suffix, s_d, "number", PyInt(1), TRUE)>>,
        browser_path |-> p_bin_x],
       \* a list, and a string whose name is the list's name plus "_input"
       [args |-> <<ArgDict(n_l, s_d, "list", PyList(<<ItemDict(FALSE, s_x)>>), TRUE),
                   ArgDict(n_l \o input_suffix, s_d, "string", PyStr(s_v), TRUE)>>,
        browser_path |-> p_bin_x],
       \* a browser path that holds a token, and exists
       [args |-> <<ArgDict(n_f, s_d, "flag", PyNone, TRUE)>>, browser_path |-> p_tok],
       \* an unknown type
       [args |-> <<ArgDict(n_a, s_d, "bogus", PyNone, TRUE)>>, browser_path |-> p_bin_x],
       \* a list argument whose value is null
       [args |-> <<ArgDict(n_l, s_d, "list", PyNone, TRUE)>>, browser_path |-> p_bin_x],
       \* an empty browser_path, value and enabled left to their defaults
       [args |-> <<[name |-> n_f, description |-> s_d, type |-> "flag"]>>,
        browser_path |-> <<>>] >>

\* what the user may leave in an input element
RawInputs ==
    { <<>>, <<"7">>, <<" ", "-", "3">>, <<"a", "b">>, <<"p", ",", " ", "q">>,
      token(TOOL_PREFIX \o s_timestamp) }

Init ==
    /\ pc = "start"
    /\ phase = "init"
    /\ error = ""
    /\ disk \in {Stored(Documents[d]) : d \in 1..Len(Documents)} \cup {Truncated}
    /\ browser_path = <<>>
    /\ args = <<>>
    /\ controls = <<>>
    /\ command_output = <<>>
    /\ event = NoEvent
    /\ now \in 0..MaxClock
    /\ fn_op = "none"
    /\ fn_in = <<>>
    /\ fn_out = <<>>

Running == pc \in {"start", "save_open", "save_write", "init_ui", "idle", "display"}

RaiseError(e) ==
    /\ pc' = "raised"
    /\ error' = e

\* App.__init__ -> _load_first_config -> Config(filepath); save() follows
LoadConfig ==
    /\ pc = "start"
    /\ LET r == config_init(disk)
       IN  IF r.ok
           THEN /\ browser_path' = r.ret.browser_path
                /\ args' = r.ret.args
                /\ pc' = "save_open"
                /\ UNCHANGED error
           ELSE /\ RaiseError(r.err)
                /\ UNCHANGED <<browser_path, args>>
    /\ UNCHANGED <<phase, disk, controls, command_output, event, now, fnvars>>

\* Config.save, Path.write_text: the file is opened with mode "w", which truncates it
SaveOpen ==
    /\ pc = "save_open"
    /\ disk' = Truncated
    /\ pc' = "save_write"
    /\ UNCHANGED <<phase, error, browser_path, args, controls, command_output, event,
                   now, fnvars>>

\* Config.save, Path.write_text: the document is written and the file closed
SaveWrite ==
    /\ pc = "save_write"
    /\ disk' = Stored(save_document(browser_path, args))
    /\ pc' = IF phase = "init" THEN "init_ui" ELSE "display"
    /\ UNCHANGED <<phase, error, browser_path, args, controls, command_output, event,
                   now, fnvars>>

\* App.__init__ after the load: the command text, then the window
InitUi ==
    /\ pc = "init_ui"
    /\ LET c == decorated_run_browser_command(browser_path, args, now)
           w == create_main_window(args)
       IN  IF ~c.ok
           THEN RaiseError(c.err) /\ UNCHANGED <<phase, controls, command_output>>
           ELSE IF ~w.ok
           THEN RaiseError(w.err) /\ UNCHANGED <<phase, controls, command_output>>
           ELSE /\ command_output' = c.ret
                /\ controls' = w.ret
                /\ pc' = "idle"
                /\ phase' = "loop"
                /\ UNCHANGED error
    /\ UNCHANGED <<disk, browser_path, args, event, now, fnvars>>

\* the user clicks the checkbox controls[k]: the widget toggles and emits its key
ClickCheckbox(k) ==
    /\ pc = "idle"
    /\ controls[k].kind \in {"arg_checkbox", "item_checkbox"}
    /\ LET c == controls[k]
           v == ~c.checked
           r == on_event(args, c.key, v, <<>>)
       IN  /\ controls' = [controls EXCEPT ![k].checked = v]
           /\ event' = [kind |-> c.kind, key |-> c.key, checked |-> v,
                        arg |-> c.arg, item |-> c.item, text |-> <<>>]
           /\ args' = r.new_args
           /\ pc' = IF r.save THEN "save_open" ELSE "display"
    /\ UNCHANGED <<phase, error, disk, browser_path, command_output, now, fnvars>>

\* the user edits the input controls[k], leaving `text` in it
EditInput(k, text) ==
    /\ pc = "idle"
    /\ controls[k].kind = "input"
    /\ LET c == controls[k]
           r == on_event(args, c.key, FALSE, text)
       IN  /\ event' = [kind |-> c.kind, key |-> c.key, checked |-> FALSE,
                        arg |-> c.arg, item |-> c.item, text |-> text]
           /\ IF r.ok
              THEN /\ args' = r.new_args
                   /\ pc' = IF r.save THEN "save_open" ELSE "display"
                   /\ UNCHANGED error
              ELSE RaiseError("AssertionError") /\ UNCHANGED args
    /\ UNCHANGED <<phase, disk, browser_path, controls, command_output, now, fnvars>>

\* the run button: App._run_browser; whether subprocess.Popen finds the program
\* is the platform's answer
ClickRun(k) ==
    /\ pc = "idle"
    /\ controls[k].kind = "button"
    /\ controls[k].key = run_key
    /\ event' = [kind |-> "button", key |-> run_key, checked |-> FALSE,
                 arg |-> 0, item |-> 0, text |-> <<>>]
    /\ LET r == run_browser_command(browser_path, args, now)
       IN  IF ~r.ok THEN RaiseError(r.err)
           ELSE \E spawned \in BOOLEAN :
                    IF spawned THEN pc' = "display" /\ UNCHANGED error
                    ELSE RaiseError("OSError")
    /\ UNCHANGED <<phase, disk, browser_path, args, controls, command_output, now,
                   fnvars>>

\* App._update_run_command_display, the last statement of the loop body
UpdateDisplay ==
    /\ pc = "display"
    /\ LET c == decorated_run_browser_command(browser_path, args, now)
       IN  IF c.ok
           THEN /\ command_output' = c.ret
                /\ pc' = "idle"
                /\ event' = NoEvent
                /\ UNCHANGED error
           ELSE RaiseError(c.err) /\ UNCHANGED <<command_output, event>>
    /\ UNCHANGED <<phase, disk, browser_path, args, controls, now, fnvars>>

\* WIN_CLOSED
CloseWindow ==
    /\ pc = "idle"
    /\ pc' = "closed"
    /\ UNCHANGED <<phase, error, disk, browser_path, args, controls, command_output,
                   event, now, fnvars>>

\* the process is killed, or the machine stops
Crash ==
    /\ Running
    /\ pc' = "crashed"
    /\ UNCHANGED <<phase, error, disk, browser_path, args, controls, command_output,
                   event, now, fnvars>>

\* the clock advances
Tick ==
    /\ Running
    /\ now < MaxClock
    /\ now' = now + 1
    /\ UNCHANGED <<appvars, fnvars>>

Next ==
    \/ LoadConfig
    \/ SaveOpen
    \/ SaveWrite
    \/ InitUi
    \/ \E k \in 1..Len(controls) : ClickCheckbox(k)
    \/ \E k \in 1..Len(controls) : \E text \in RawInputs : EditInput(k, text)
    \/ \E k \in 1..Len(controls) : ClickRun(k)
    \/ UpdateDisplay
    \/ CloseWindow
    \/ Crash
    \/ Tick

Spec == Init /\ [][Next]_vars

(***************************************************************************)
(* The pure functions, applied to inputs drawn from bounded sets.          *)
(***************************************************************************)
SampleItems == {ArgListItem(e, v) : e \in BOOLEAN, v \in {s_x, s_y}}

ItemSeqs == UNION {[1..n -> SampleItems] : n \in 0..MaxItems}

ValidValues(ty) ==
    CASE ty = "FLAG" -> {PyNone}
      [] ty = "STRING" -> {PyStr(s) : s \in {<<>>, s_v, token(ENV_PREFIX \o s_FOO)}}
      [] ty = "NUMBER" -> {PyInt(n) : n \in {-1, 0, 7}}
      [] ty = "LIST" -> {PyList(xs) : xs \in ItemSeqs}

RawChars == {"a", "b", ",", " "}

s_a_b_c == <<"a", ",", " ", "b", " ", ",", "c">>

RawListInputs == UNION {[1..n -> RawChars] : n \in 0..MaxRawLen} \cup {s_a_b_c}

Inners ==
    { ENV_PREFIX \o s_FOO, ENV_PREFIX \o s_REF, ENV_PREFIX \o s_NOPE,
      TOOL_PREFIX \o s_timestamp, s_x }

Plains == { <<"a">>, <<"$">>, <<"}">>, <<" ">>, <<"\\", "a">> }

\* a piece of input text: plain text, or a token behind bs backslashes
Segments ==
    {[inner |-> <<>>, bs |-> 0, plain |-> p] : p \in Plains}
    \cup {[inner |-> i, bs |-> k, plain |-> <<>>] : k \in 0..MaxBackslashes, i \in Inners}

Backslashes(k) == [j \in 1..k |-> "\\"]

SegText(seg) ==
    IF seg.inner = <<>> THEN seg.plain ELSE Backslashes(seg.bs) \o token(seg.inner)

RECURSIVE Flatten(_)
Flatten(segs) == IF segs = <<>> THEN <<>> ELSE SegText(Head(segs)) \o Flatten(Tail(segs))

InitPure == Init /\ disk = Stored(Documents[1])

ApplyRoundTrip(a) ==
    /\ fn_op = "none"
    /\ fn_op' = "round_trip"
    /\ fn_in' = a
    /\ fn_out' = from_json(to_json(a))
    /\ UNCHANGED <<appvars, now>>

SetValueCall(as, name, raw) == [args |-> as, name |-> name, raw |-> raw]

ApplySetValue(as, name, raw) ==
    /\ fn_op = "none"
    /\ fn_op' = "set_value"
    /\ fn_in' = SetValueCall(as, name, raw)
    /\ fn_out' = set_value(as, name, raw)
    /\ UNCHANGED <<appvars, now>>

ApplyInterpolate(segs) ==
    /\ fn_op = "none"
    /\ fn_op' = "interpolate"
    /\ fn_in' = segs
    /\ fn_out' = interpolate_string(Flatten(segs), now)
    /\ UNCHANGED <<appvars, now>>

\* one application per behaviour; each disjunct decides that before it
\* enumerates the inputs
NextPure ==
    \/ /\ fn_op = "none"
       /\ \E ty \in ArgTypeMembers : \E v \in ValidValues(ty) :
            \E name \in {n_a, n_b \o input_suffix} : \E d \in {<<>>, s_d} :
              \E e \in BOOLEAN :
                ApplyRoundTrip([name |-> name, description |-> d, type |-> ty,
                                value |-> v, enabled |-> e])
    \/ /\ fn_op = "none"
       /\ \E xs \in ItemSeqs : \E e \in BOOLEAN : \E raw \in RawListInputs :
            ApplySetValue(<<[name |-> n_a, description |-> s_d, type |-> "NUMBER",
                             value |-> PyInt(1), enabled |-> TRUE],
                            [name |-> n_l, description |-> s_d, type |-> "LIST",
                             value |-> PyList(xs), enabled |-> e]>>, n_l, raw)
    \/ /\ fn_op = "none"
       /\ \E n \in 1..MaxSegments : \E segs \in [1..n -> Segments] :
            ApplyInterpolate(segs)

PureSpec == InitPure /\ [][NextPure]_vars

(***************************************************************************)
(* Properties                                                              *)
(***************************************************************************)
\* Config.__init__ has returned: str(Path) is never empty
Loaded == browser_path # <<>>

EnabledArgs == SelectSeq(args, LAMBDA a : a.enabled)

\* C1 (as amended): run_browser_command returns the browser path itself, not
\* interpolated, followed by interpolate(render(a)) for each enabled Argument a
\* in declaration order, disabled Arguments left out; and the command text on
\* display in the idle loop is that vector, joined, as of some past instant.
C1_CommandVector ==
    Loaded =>
        LET r == run_browser_command(browser_path, args, now)
        IN  /\ r.ok =>
                /\ Len(r.ret) = 1 + Len(EnabledArgs)
                /\ r.ret[1] = browser_path
                /\ \A k \in 1..Len(EnabledArgs) :
                      r.ret[k + 1] = interpolate_string(arg_str(EnabledArgs[k]).ret, now)
            /\ pc = "idle" =>
                \E t \in 0..now :
                    LET d == run_browser_command(browser_path, args, t)
                    IN  d.ok /\ command_output = join(<<"\n">>, d.ret)

\* C1 witness: an idle program with a disabled argument and an enabled one whose
\* rendering the interpolation changes
C1_Witness ==
    /\ pc = "idle"
    /\ \E k \in 1..Len(args) : ~args[k].enabled
    /\ LET r == run_browser_command(browser_path, args, now)
       IN  /\ r.ok
           /\ \E k \in 1..Len(EnabledArgs) : r.ret[k + 1] # arg_str(EnabledArgs[k]).ret

\* C1 as stated: every element of the vector, the browser path included, is
\* passed through interpolate
C1_Original ==
    Loaded =>
        LET r == run_browser_command(browser_path, args, now)
        IN  r.ok =>
                /\ Len(r.ret) = 1 + Len(EnabledArgs)
                /\ r.ret[1] = interpolate_string(browser_path, now)
                /\ \A k \in 1..Len(EnabledArgs) :
                      r.ret[k + 1] = interpolate_string(arg_str(EnabledArgs[k]).ret, now)

DiskIsImage ==
    /\ disk = Stored([args |-> [k \in 1..Len(args) |-> to_json(args[k])],
                      browser_path |-> browser_path])
    /\ LET r == config_init(disk)
       IN  r.ok /\ r.ret.browser_path = browser_path /\ r.ret.args = args

\* C2 (as amended): whenever the event loop has finished handling an event (and
\* after the load), the document on disk is the serialization of the
\* configuration in memory; the save is the loop's, made after set_value returns.
C2_WriteThrough == (Loaded /\ pc \in {"idle", "display", "closed"}) => DiskIsImage

\* C2 witness: the loop is idle after an input event stored " -3" as the number -3
C2_Witness ==
    /\ pc = "idle"
    /\ \E k \in 1..Len(args) : args[k].type = "NUMBER" /\ args[k].value = PyInt(-3)
    /\ DiskIsImage

\* C2 as stated: set_value itself persists, so the disk is the image of memory
\* as soon as set_value has returned
C2_Original == (pc = "save_open" /\ event.kind = "input") => DiskIsImage

ShapeOK(a) ==
    /\ (a.value.t = "None") <=> (a.type = "FLAG")
    /\ a.type = "STRING" => a.value.t = "str"
    /\ a.type = "NUMBER" => a.value.t = "int"
    /\ a.type = "LIST" =>
          /\ a.value.t = "list"
          /\ \A j \in 1..Len(a.value.items) : a.value.items[j].cls = "ArgListItem"

\* C3 as stated: after a successful load every Argument's value has the shape
\* of its type, absent exactly for a Flag
C3_Original == Loaded => \A k \in 1..Len(args) : ShapeOK(args[k])

\* C4 as stated: once the window is up, no event makes a core operation raise
C4_Original == ~(pc = "raised" /\ phase = "loop" /\ error = "AssertionError")

ReferencesExecutable(doc) ==
    /\ "browser_path" \in DOMAIN doc
    /\ doc.browser_path # <<>>
    /\ doc.browser_path \in DOMAIN FileSystem
    /\ FileSystem[doc.browser_path] = "executable"

\* C6 as stated: a document whose browser_path is missing, empty, or names no
\* existing executable does not load: the load ends in FileNotFoundError
C6_Original ==
    (phase = "init" /\ pc \in {"save_open", "raised"} /\ disk.kind = "doc"
        /\ ~ReferencesExecutable(disk.doc))
    => (pc = "raised" /\ error = "FileNotFoundError")

\* C9 as stated: wherever the program is stopped after its load, the file holds
\* a complete document
C9_Original == (pc = "crashed" /\ Loaded) => disk.kind = "doc"

ExpectedArgs(as, e) ==
    CASE e.kind = "arg_checkbox" -> [as EXCEPT ![e.arg].enabled = e.checked]
      [] e.kind = "item_checkbox" ->
            IF e.item <= Len(as[e.arg].value.items)
            THEN [as EXCEPT ![e.arg].value.items[e.item].enabled = e.checked]
            ELSE as
      [] e.kind = "input" ->
            [as EXCEPT ![e.arg] = set_value(<<as[e.arg]>>, as[e.arg].name, e.text).ret[1]]
      [] OTHER -> as

\* C10 as stated: an event changes exactly the Argument or ListItem whose
\* control emitted it, whatever the names are
C10_Original ==
    [][(pc = "idle" /\ event'.kind # "none") => args' = ExpectedArgs(args, event')]_vars

(***************************************************************************)
(* Properties of the pure functions                                        *)
(***************************************************************************)
\* C5: from_json(to_json(a)) is an Argument with the name, description, type,
\* value (each item's enabled and value, in order) and enabled of a
C5_RoundTrip ==
    fn_op = "round_trip" =>
        /\ fn_out.ok
        /\ fn_out.ret.name = fn_in.name
        /\ fn_out.ret.description = fn_in.description
        /\ fn_out.ret.type = fn_in.type
        /\ fn_out.ret.enabled = fn_in.enabled
        /\ fn_out.ret.value.t = fn_in.value.t
        /\ fn_out.ret.value = fn_in.value
        /\ fn_in.type = "LIST" =>
              /\ Len(fn_out.ret.value.items) = Len(fn_in.value.items)
              /\ \A j \in 1..Len(fn_in.value.items) :
                    /\ fn_out.ret.value.items[j].cls = "ArgListItem"
                    /\ fn_out.ret.value.items[j].enabled = fn_in.value.items[j].enabled
                    /\ fn_out.ret.value.items[j].value = fn_in.value.items[j].value

\* C5 witness: a list with an enabled and a disabled item made the round trip
C5_Witness ==
    /\ fn_op = "round_trip"
    /\ fn_in.type = "LIST"
    /\ \E i, j \in 1..Len(fn_in.value.items) :
          fn_in.value.items[i].enabled /\ ~fn_in.value.items[j].enabled
    /\ fn_out.ok
    /\ fn_out.ret = fn_in

Count(s, c) == Cardinality({k \in 1..Len(s) : s[k] = c})

NoSpaces(s) == SelectSeq(s, LAMBDA c : ~IsSpace(c))

IsSubstring(u, s) ==
    \E i \in 1..(Len(s) + 1) : i + Len(u) - 1 <= Len(s) /\ SubSeq(s, i, i + Len(u) - 1) = u

\* C7: set_value on a List Argument replaces the items by one item per
\* comma-separated piece of the raw text, trimmed, in order, all enabled,
\* whatever the previous items were; name, description, type and enabled of the
\* Argument, and the other Arguments, stay as they were
C7_ListSetValue ==
    fn_op = "set_value" =>
        /\ fn_out.ok
        /\ Len(fn_out.ret) = Len(fn_in.args)
        /\ fn_out.ret[1] = fn_in.args[1]
        /\ LET old == fn_in.args[2]
               new == fn_out.ret[2]
               items == new.value.items
               values == [k \in 1..Len(items) |-> items[k].value]
           IN  /\ new.name = old.name
               /\ new.description = old.description
               /\ new.type = old.type
               /\ new.enabled = old.enabled
               /\ new.value.t = "list"
               /\ Len(items) = Count(fn_in.raw, ",") + 1
               /\ \A k \in 1..Len(items) :
                     /\ items[k].cls = "ArgListItem"
                     /\ items[k].enabled
                     /\ Count(values[k], ",") = 0
                     /\ values[k] # <<>> =>
                           ~IsSpace(values[k][1]) /\ ~IsSpace(values[k][Len(values[k])])
                     /\ IsSubstring(values[k], fn_in.raw)
               /\ NoSpaces(join(<<",">>, values)) = NoSpaces(fn_in.raw)
               /\ fn_in.raw = s_a_b_c => values = <<<<"a">>, <<"b">>, <<"c">>>>

\* C7 witness: "a, b ,c" set on a disabled list whose items were x (enabled)
\* and y (disabled)
C7_Witness ==
    /\ fn_op = "set_value"
    /\ fn_in.raw = s_a_b_c
    /\ ~fn_in.args[2].enabled
    /\ fn_in.args[2].value.items = <<ArgListItem(TRUE, s_x), ArgListItem(FALSE, s_y)>>
    /\ fn_out.ok
    /\ fn_out.ret[2].value.items =
          <<ArgListItem(TRUE, <<"a">>), ArgListItem(TRUE, <<"b">>),
            ArgListItem(TRUE, <<"c">>)>>

\* what a token's provider gives
Resolved(inner, t) ==
    CASE inner = ENV_PREFIX \o s_FOO -> s_bar
      [] inner = ENV_PREFIX \o s_REF -> token(ENV_PREFIX \o s_FOO)
      [] inner = TOOL_PREFIX \o s_timestamp -> timestamp(t)
      [] OTHER -> token(inner)

\* a token right behind a backslash loses that one backslash and stays as it
\* is; the backslashes before that one are kept
ExpectedSeg(seg, t) ==
    IF seg.inner = <<>> THEN seg.plain
    ELSE IF seg.bs = 0 THEN Resolved(seg.inner, t)
    ELSE Backslashes(seg.bs - 1) \o token(seg.inner)

RECURSIVE ExpectedText(_, _)
ExpectedText(segs, t) ==
    IF segs = <<>> THEN <<>>
    ELSE ExpectedSeg(Head(segs), t) \o ExpectedText(Tail(segs), t)

\* C8 (as amended): a token right behind a backslash is output without that
\* backslash and unresolved, also when that backslash itself follows a
\* backslash; a token not right behind a backslash goes to its provider; what
\* a provider returns is not scanned again
C8_Interpolate == fn_op = "interpolate" => fn_out = ExpectedText(fn_in, now)

\* C8 witness: an escaped token followed by a token whose value is itself a token
C8_Witness ==
    /\ fn_op = "interpolate"
    /\ Len(fn_in) = 2
    /\ fn_in[1].bs = 1
    /\ fn_in[1].inner = ENV_PREFIX \o s_FOO
    /\ fn_in[2].bs = 0
    /\ fn_in[2].inner = ENV_PREFIX \o s_REF
    /\ fn_out = token(ENV_PREFIX \o s_FOO) \o token(ENV_PREFIX \o s_FOO)

\* C8 as stated: a token behind a doubled (escaped) backslash is one not behind
\* an unescaped backslash, and goes to its provider
C8_Original ==
    (fn_op = "interpolate" /\ Len(fn_in) = 1 /\ fn_in[1].inner # <<>>
        /\ fn_in[1].bs % 2 = 0)
    => endswith(fn_out, Resolved(fn_in[1].inner, now))

====
